---- MODULE Spec2Model ----
(***************************************************************************)
(* WorkspaceEditHandler of atom-languageclient: applying an LSP workspace  *)
(* edit to Atom text buffers and to the filesystem.                        *)
(*                                                                         *)
(* Text is modelled as it is stored in a TextBuffer: a sequence of lines,  *)
(* each line a sequence of one-character strings.  A newText is the same:  *)
(* the sequence of the lines it has between its newline characters.        *)
(***************************************************************************)
EXTENDS Integers, Sequences, FiniteSets, TLC

VARIABLES
    buffers,        \* path -> TextBuffer: [lines, undoStack, nextCheckpointId]
    preCall,        \* path -> the lines of the buffer before the call (history)
    setTextLog,     \* path -> the edits handed to setTextInRange, in order (history)
    applier,        \* a direct call of handleTextDocumentEdit and its outcome
    files,          \* filesystem path -> content of the file, "absent" if none
    changes,        \* the operation list handed to handleDocumentChanges
    phase,          \* of the handleDocumentChanges call: "idle", "pending", "returned"
    promises,       \* i -> state of the promise of the i-th map callback
    ops,            \* i -> state of the i-th operation itself
    errors,         \* i -> the error the i-th operation failed with, "none" if none
    joined,         \* the Promise.all over promises: [state, err]
    checkpoints,    \* the checkpoints array of the call
    result,         \* the applied field returned: "none", "true", "false"
    notifications,  \* the error notifications shown, in order
    unhandled,      \* operations whose rejection no handler receives
    workspaceEdit,  \* the workspace edit handed to handle
    revertLog,      \* the revertToCheckpoint calls made, in order (history)
    diagnosticMap,  \* LinterPushV2Adapter._diagnosticMap: entries [path, messages]
    diagnosticCodes,\* LinterPushV2Adapter._diagnosticCodes: entries [path, codeMap]
    indies,         \* LinterPushV2Adapter._indies
    destroyed,      \* the delegates that were destroyed
    listeners,      \* the delegates with an onDidDestroy callback of the adapter
    received,       \* delegate -> the calls made on it, in order (history)
    linterEvents    \* the events of the adapter, in order (history)

linterVars == <<diagnosticMap, diagnosticCodes, indies, destroyed, listeners,
                received, linterEvents>>

vars == <<buffers, preCall, setTextLog, applier, files, changes, phase,
          promises, ops, errors, joined, checkpoints, result, notifications,
          unhandled, workspaceEdit, revertLog, linterVars>>

loopVars == <<files, changes, phase, promises, ops, errors, joined,
              checkpoints, result, notifications, unhandled, workspaceEdit>>

(***************************************************************************)
(* Bounds and the inputs the model draws from.                             *)
(***************************************************************************)
MaxEdits == 3
MaxOps == 3
MaxEvents == 5

DocPaths == {"/a", "/b"}

\* The linter delegates of the environment.
Delegates == {"d1", "d2"}

\* "a\nb": rows 0 and 1, each of length 1.
SmallLines == << <<"a">>, <<"b">> >>

\* Positions of the drawn edits: three inside "a\nb", one past the end of
\* row 0, one past the last row.
EditPositions ==
    { [line |-> 0, character |-> 0], [line |-> 0, character |-> 1],
      [line |-> 0, character |-> 2], [line |-> 1, character |-> 0],
      [line |-> 2, character |-> 0] }

\* "x" and "y\n"
EditTexts == { << <<"x">> >>, << <<"y">>, <<>> >> }

(***************************************************************************)
(* Point and Range of the atom text-buffer package.                        *)
(***************************************************************************)
PointCompare(p, q) ==
    IF p.row < q.row THEN -1
    ELSE IF p.row > q.row THEN 1
    ELSE IF p.column < q.column THEN -1
    ELSE IF p.column > q.column THEN 1
    ELSE 0

\* Range.compare: by start, and for equal starts the larger range first.
RangeCompare(r, other) ==
    LET value == PointCompare(r.start, other.start)
    IN  IF value /= 0 THEN value ELSE PointCompare(other.end, r.end)

(***************************************************************************)
(* Convert.convertLsTextEdit: an LSP TextEdit becomes an atom-ide TextEdit *)
(* whose oldRange is the Range of the two converted positions.             *)
(***************************************************************************)
PositionToPoint(position) ==
    [row |-> position.line, column |-> position.character]

LsRangeToAtomRange(range) ==
    LET a == PositionToPoint(range.start)
        b == PositionToPoint(range.end)
    IN  IF PointCompare(a, b) <= 0 THEN [start |-> a, end |-> b]
        ELSE [start |-> b, end |-> a]

ConvertLsTextEdit(textEdit) ==
    [oldRange |-> LsRangeToAtomRange(textEdit.range), newText |-> textEdit.newText]

(***************************************************************************)
(* TextBuffer: the part of its contract the handler uses.                  *)
(***************************************************************************)
NullLength == -1

LineLengthForRow(lines, row) ==
    IF row \in 0..(Len(lines) - 1) THEN Len(lines[row + 1]) ELSE NullLength

ClipPosition(lines, p) ==
    IF p.row > Len(lines) - 1
    THEN [row |-> Len(lines) - 1, column |-> Len(lines[Len(lines)])]
    ELSE [row |-> p.row,
          column |-> IF p.column > Len(lines[p.row + 1])
                     THEN Len(lines[p.row + 1]) ELSE p.column]

\* The lines after replacing the (clipped) range by text.
ReplaceRange(lines, range, text) ==
    LET s == ClipPosition(lines, range.start)
        e == ClipPosition(lines, range.end)
        prefix == SubSeq(lines[s.row + 1], 1, s.column)
        suffix == SubSeq(lines[e.row + 1], e.column + 1, Len(lines[e.row + 1]))
        n == Len(text)
        middle == IF n = 1 THEN << prefix \o text[1] \o suffix >>
                  ELSE << prefix \o text[1] >> \o SubSeq(text, 2, n - 1)
                       \o << text[n] \o suffix >>
    IN  SubSeq(lines, 1, s.row) \o middle \o SubSeq(lines, e.row + 2, Len(lines))

NewBuffer(lines) == [lines |-> lines, undoStack |-> <<>>, nextCheckpointId |-> 1]

CreateCheckpoint(buffer) ==
    [buffer EXCEPT
        !.undoStack = Append(@, [kind |-> "checkpoint",
                                 id |-> buffer.nextCheckpointId,
                                 before |-> buffer.lines]),
        !.nextCheckpointId = @ + 1]

SetTextInRange(buffer, range, text) ==
    [buffer EXCEPT
        !.lines = ReplaceRange(buffer.lines, range, text),
        !.undoStack = Append(@, [kind |-> "patch", id |-> 0,
                                 before |-> buffer.lines])]

\* Index of the checkpoint in the undo stack, 0 when it is not there.
CheckpointIndex(undoStack, checkpoint) ==
    LET found == { i \in 1..Len(undoStack) :
                     /\ undoStack[i].kind = "checkpoint"
                     /\ undoStack[i].id = checkpoint }
    IN  IF found = {} THEN 0 ELSE CHOOSE i \in found : \A j \in found : j <= i

RevertToCheckpoint(buffer, checkpoint) ==
    LET i == CheckpointIndex(buffer.undoStack, checkpoint)
    IN  IF i = 0 THEN buffer
        ELSE [buffer EXCEPT !.lines = buffer.undoStack[i].before,
                            !.undoStack = SubSeq(buffer.undoStack, 1, i - 1)]

\* No grouping: the changes since the checkpoint stay separate.
GroupChangesOmitted(buffer, checkpoint) == buffer

GroupChangesSinceCheckpoint(buffer, checkpoint) ==
    LET i == CheckpointIndex(buffer.undoStack, checkpoint)
    IN  IF i = 0 \/ i = Len(buffer.undoStack) THEN buffer
        ELSE [buffer EXCEPT
                !.undoStack = Append(SubSeq(buffer.undoStack, 1, i),
                                     [kind |-> "transaction", id |-> 0,
                                      before |-> buffer.undoStack[i].before])]

\* validateEdit comparing with >= 0: touching ranges count as overlapping.
ValidateEditTouchIsOverlap(buffer, edit, prevEdit) ==
    IF /\ prevEdit /= <<>>
       /\ PointCompare(edit.oldRange.end, prevEdit[1].oldRange.start) >= 0
    THEN "overlap"
    ELSE IF \/ LineLengthForRow(buffer.lines, edit.oldRange.start.row) = NullLength
            \/ edit.oldRange.start.column
                  > LineLengthForRow(buffer.lines, edit.oldRange.start.row)
    THEN "outOfRange"
    ELSE "none"

\* validateEdit without the comparison with the previous edit.
ValidateEditNoOverlapCheck(buffer, edit, prevEdit) ==
    IF \/ LineLengthForRow(buffer.lines, edit.oldRange.start.row) = NullLength
       \/ edit.oldRange.start.column
             > LineLengthForRow(buffer.lines, edit.oldRange.start.row)
    THEN "outOfRange"
    ELSE "none"

\* validateEdit without the check of the start position.
ValidateEditNoRangeCheck(buffer, edit, prevEdit) ==
    IF /\ prevEdit /= <<>>
       /\ PointCompare(edit.oldRange.end, prevEdit[1].oldRange.start) > 0
    THEN "overlap"
    ELSE "none"

(***************************************************************************)
(* WorkspaceEditHandler.validateEdit: prevEdit is <<>> for null, <<e>>     *)
(* for an edit.  The result is the error thrown, "none" when it returns.   *)
(***************************************************************************)
ValidateEdit(buffer, edit, prevEdit) ==
    IF /\ prevEdit /= <<>>
       /\ PointCompare(edit.oldRange.end, prevEdit[1].oldRange.start) > 0
    THEN "overlap"
    ELSE LET startRow == edit.oldRange.start.row
             startCol == edit.oldRange.start.column
             lineLength == LineLengthForRow(buffer.lines, startRow)
         IN  IF lineLength = NullLength \/ startCol > lineLength
             THEN "outOfRange"
             ELSE "none"

(***************************************************************************)
(* WorkspaceEditHandler.handleTextDocumentEdit                             *)
(***************************************************************************)
\* The comparator without the negation: ascending order.
CompareEditsAscending(edit1, edit2) == RangeCompare(edit1.oldRange, edit2.oldRange)

\* The comparator of the sort: the negated Range.compare.
CompareEdits(edit1, edit2) == -RangeCompare(edit1.oldRange, edit2.oldRange)

RECURSIVE InsertEdit(_, _)
InsertEdit(e, sorted) ==
    IF sorted = <<>> THEN <<e>>
    ELSE IF CompareEdits(e, Head(sorted)) < 0 THEN <<e>> \o sorted
    ELSE <<Head(sorted)>> \o InsertEdit(e, Tail(sorted))

\* No sort: the edits stay in input order.
SortEditsOmitted(atomEdits) == atomEdits

\* Array.prototype.sort with CompareEdits: a stable sort.
RECURSIVE SortEdits(_)
SortEdits(atomEdits) ==
    IF atomEdits = <<>> THEN <<>>
    ELSE InsertEdit(atomEdits[Len(atomEdits)],
                    SortEdits(SubSeq(atomEdits, 1, Len(atomEdits) - 1)))

\* The reduce substituting each edit before it validates it.
RECURSIVE ReduceEditsSubstituteFirst(_, _, _, _)
ReduceEditsSubstituteFirst(buffer, sorted, i, log) ==
    IF i > Len(sorted) THEN [buffer |-> buffer, err |-> "none", log |-> log]
    ELSE LET current == sorted[i]
             previous == IF i = 1 THEN <<>> ELSE << sorted[i - 1] >>
             v == ValidateEdit(buffer, current, previous)
             next == SetTextInRange(buffer, current.oldRange, current.newText)
         IN  IF v /= "none"
             THEN [buffer |-> next, err |-> v, log |-> Append(log, current)]
             ELSE ReduceEditsSubstituteFirst(next, sorted, i + 1, Append(log, current))

\* The reduce over the sorted edits, from the i-th on: validate, substitute.
RECURSIVE ReduceEdits(_, _, _, _)
ReduceEdits(buffer, sorted, i, log) ==
    IF i > Len(sorted) THEN [buffer |-> buffer, err |-> "none", log |-> log]
    ELSE LET current == sorted[i]
             previous == IF i = 1 THEN <<>> ELSE << sorted[i - 1] >>
             v == ValidateEdit(buffer, current, previous)
         IN  IF v /= "none" THEN [buffer |-> buffer, err |-> v, log |-> log]
             ELSE ReduceEdits(SetTextInRange(buffer, current.oldRange, current.newText),
                              sorted, i + 1, Append(log, current))

\* handleTextDocumentEdit with a catch that rethrows without reverting.
HandleTextDocumentEditNoRevert(buffer, edit) ==
    LET atomEdits == [i \in 1..Len(edit.edits) |-> ConvertLsTextEdit(edit.edits[i])]
        checkpoint == buffer.nextCheckpointId
        r == ReduceEdits(CreateCheckpoint(buffer), SortEdits(atomEdits), 1, <<>>)
    IN  IF r.err = "none"
        THEN [buffer |-> GroupChangesSinceCheckpoint(r.buffer, checkpoint),
              err |-> "none", checkpoint |-> checkpoint, log |-> r.log,
              reverts |-> <<>>]
        ELSE [buffer |-> r.buffer, err |-> r.err, checkpoint |-> 0, log |-> r.log,
              reverts |-> <<>>]

\* The outcome of the call: the buffer afterwards, the error thrown ("none"
\* when it returns), the checkpoint returned and the substitutions made.
HandleTextDocumentEdit(buffer, edit) ==
    LET atomEdits == [i \in 1..Len(edit.edits) |-> ConvertLsTextEdit(edit.edits[i])]
        checkpoint == buffer.nextCheckpointId
        marked == CreateCheckpoint(buffer)
        r == ReduceEdits(marked, SortEdits(atomEdits), 1, <<>>)
    IN  IF r.err = "none"
        THEN [buffer |-> GroupChangesSinceCheckpoint(r.buffer, checkpoint),
              err |-> "none", checkpoint |-> checkpoint, log |-> r.log,
              reverts |-> <<>>]
        ELSE [buffer |-> RevertToCheckpoint(r.buffer, checkpoint),
              err |-> r.err, checkpoint |-> 0, log |-> r.log,
              reverts |-> << [checkpoint |-> checkpoint, by |-> "applier"] >>]

(***************************************************************************)
(* A direct call of handleTextDocumentEdit on the buffer of "/a".          *)
(***************************************************************************)
LsRanges ==
    { r \in [start : EditPositions, end : EditPositions] :
        PointCompare(PositionToPoint(r.start), PositionToPoint(r.end)) <= 0 }

LsTextEdits == [range : LsRanges, newText : EditTexts]

EditLists == UNION { [1..n -> LsTextEdits] : n \in 0..MaxEdits }

\* The adapter is not used: nothing is stored, no delegate is attached.
NoLinter ==
    /\ diagnosticMap = <<>>
    /\ diagnosticCodes = <<>>
    /\ indies = {}
    /\ destroyed = {}
    /\ listeners = {}
    /\ received = [d \in Delegates |-> <<>>]
    /\ linterEvents = <<>>

\* No call of handleDocumentChanges is made.
NoLoop ==
    /\ files = [f \in {"/p", "/q", "file:///p"} |-> "absent"]
    /\ changes = <<>>
    /\ phase = "idle"
    /\ promises = <<>>
    /\ ops = <<>>
    /\ errors = <<>>
    /\ joined = [state |-> "none", err |-> [kind |-> "none", path |-> ""]]
    /\ checkpoints = <<>>
    /\ result = "none"
    /\ notifications = <<>>
    /\ unhandled = {}
    /\ workspaceEdit = [hasDocumentChanges |-> FALSE, documentChanges |-> <<>>,
                        hasChanges |-> FALSE, changes |-> <<>>]

NoCall == [status |-> "idle", path |-> "/a", edits |-> <<>>,
           err |-> "none", checkpoint |-> 0]

\* "hello world" with [0,5) -> "goodbye" and [6,11) -> "earth".
HelloLines == << <<"h", "e", "l", "l", "o", " ", "w", "o", "r", "l", "d">> >>

HelloEdits ==
    << [range |-> [start |-> [line |-> 0, character |-> 0],
                   end |-> [line |-> 0, character |-> 5]],
        newText |-> << <<"g", "o", "o", "d", "b", "y", "e">> >>],
       [range |-> [start |-> [line |-> 0, character |-> 6],
                   end |-> [line |-> 0, character |-> 11]],
        newText |-> << <<"e", "a", "r", "t", "h">> >>] >>

EditCalls ==
    { [lines |-> SmallLines, edits |-> es] : es \in EditLists }
    \cup { [lines |-> HelloLines, edits |-> HelloEdits] }

InitEdit ==
    /\ \E c \in EditCalls :
         /\ buffers = [p \in DocPaths |-> NewBuffer(c.lines)]
         /\ preCall = [p \in DocPaths |-> c.lines]
         /\ applier = [NoCall EXCEPT !.status = "ready", !.edits = c.edits]
    /\ setTextLog = [p \in DocPaths |-> <<>>]
    /\ revertLog = <<>>
    /\ NoLoop
    /\ NoLinter

CallHandleTextDocumentEdit ==
    /\ applier.status = "ready"
    /\ LET r == HandleTextDocumentEdit(buffers[applier.path],
                                       [textDocument |-> [uri |-> "file:///a", version |-> 0],
                                        edits |-> applier.edits])
       IN  /\ buffers' = [buffers EXCEPT ![applier.path] = r.buffer]
           /\ setTextLog' = [setTextLog EXCEPT ![applier.path] = @ \o r.log]
           /\ revertLog' = revertLog \o [k \in 1..Len(r.reverts) |->
                                          [buffer |-> applier.path,
                                           checkpoint |-> r.reverts[k].checkpoint,
                                           by |-> r.reverts[k].by]]
           /\ applier' = [applier EXCEPT
                            !.status = IF r.err = "none" THEN "returned" ELSE "threw",
                            !.err = r.err, !.checkpoint = r.checkpoint]
    /\ UNCHANGED linterVars
    /\ UNCHANGED <<preCall, loopVars>>

NextEdit == CallHandleTextDocumentEdit

SpecEdit == InitEdit /\ [][NextEdit]_vars

(***************************************************************************)
(* The operations a workspace edit is drawn from.                          *)
(***************************************************************************)
DocUris == {"file:///a", "file:///b"}

\* Convert.uriToPath: the path of a file: uri.
UriToPath(uri) ==
    CASE uri = "file:///a" -> "/a"
      [] uri = "file:///b" -> "/b"
      [] uri = "file:///p" -> "/p"
      [] uri = "file:///q" -> "/q"
      [] OTHER -> uri

LsEdit(sl, sc, el, ec, text) ==
    [range |-> [start |-> [line |-> sl, character |-> sc],
                end |-> [line |-> el, character |-> ec]],
     newText |-> text]

\* Two disjoint edits, given in document order.
ValidBatch == << LsEdit(0, 0, 0, 1, << <<"x">> >>),
                 LsEdit(1, 0, 1, 0, << <<"y">>, <<>> >>) >>

\* [0:0, 0:1) and [0:1, 1:0): the first ends where the second starts.
TouchBatch == << LsEdit(0, 0, 0, 1, << <<"x">> >>),
                 LsEdit(0, 1, 1, 0, << <<"x">> >>) >>

\* [0:0, 1:0) and [0:1, 1:0)
OverlapBatch == << LsEdit(0, 0, 1, 0, << <<"x">> >>),
                   LsEdit(0, 1, 1, 0, << <<"x">> >>) >>

\* An insertion past the last row.
OutOfRangeBatch == << LsEdit(2, 0, 2, 0, << <<"x">> >>) >>

Batches == {ValidBatch, TouchBatch, OverlapBatch, OutOfRangeBatch}

TextDocumentEdits ==
    { [kind |-> "edit", uri |-> u, version |-> "1", newUri |-> "", edits |-> b] :
        u \in DocUris, b \in Batches }

ResourceOperations ==
    { [kind |-> "delete", uri |-> "file:///p", version |-> "none",
       newUri |-> "", edits |-> <<>>],
      [kind |-> "rename", uri |-> "file:///p", version |-> "none",
       newUri |-> "file:///q", edits |-> <<>>],
      [kind |-> "create", uri |-> "file:///p", version |-> "none",
       newUri |-> "", edits |-> <<>>] }

Operations == TextDocumentEdits \cup ResourceOperations

IsTextDocumentEdit(edit) == edit.kind = "edit"

\* Operation lists with at most one batch for a document.
ChangeLists ==
    { cs \in UNION { [1..n -> Operations] : n \in 0..MaxOps } :
        \A i, j \in 1..Len(cs) :
            (i /= j /\ IsTextDocumentEdit(cs[i]) /\ IsTextDocumentEdit(cs[j]))
                => cs[i].uri /= cs[j].uri }

\* The legacy changes property: its keys in the order of Object.keys, each
\* with its edit list.
ChangeMaps ==
    { m \in UNION { [1..n -> [uri : DocUris, edits : Batches]] : n \in 0..2 } :
        \A i, j \in 1..Len(m) : i /= j => m[i].uri /= m[j].uri }

\* Workspace edits with documentChanges, with changes, with both, with none.
WorkspaceEdits ==
    { [hasDocumentChanges |-> TRUE, documentChanges |-> cs,
       hasChanges |-> FALSE, changes |-> <<>>] : cs \in ChangeLists }
    \cup { [hasDocumentChanges |-> FALSE, documentChanges |-> <<>>,
            hasChanges |-> TRUE, changes |-> m] : m \in ChangeMaps }
    \cup { [hasDocumentChanges |-> TRUE, documentChanges |-> cs,
            hasChanges |-> TRUE, changes |-> m] :
              cs \in { c \in ChangeLists : Len(c) <= 1 }, m \in ChangeMaps }
    \cup { [hasDocumentChanges |-> FALSE, documentChanges |-> <<>>,
            hasChanges |-> FALSE, changes |-> <<>>] }

NoError == [kind |-> "none", path |-> ""]

\* normalizeChanges ignoring the changes property.
NormalizeChangesIgnoringChanges(we) ==
    IF we.hasDocumentChanges THEN we.documentChanges ELSE <<>>

\* normalizeChanges converting the changes property whenever it is present.
NormalizeChangesAlwaysConverting(we) ==
    (IF we.hasDocumentChanges THEN we.documentChanges ELSE <<>>)
    \o (IF we.hasChanges
        THEN [k \in 1..Len(we.changes) |->
                [kind |-> "edit", uri |-> we.changes[k].uri, version |-> "null",
                 newUri |-> "", edits |-> we.changes[k].edits]]
        ELSE <<>>)

(***************************************************************************)
(* WorkspaceEditHandler.normalizeChanges                                   *)
(***************************************************************************)
NormalizeChanges(we) ==
    LET documentChanges == IF we.hasDocumentChanges THEN we.documentChanges ELSE <<>>
    IN  IF ~we.hasDocumentChanges /\ we.hasChanges
        THEN documentChanges
             \o [k \in 1..Len(we.changes) |->
                   [kind |-> "edit", uri |-> we.changes[k].uri, version |-> "null",
                    newUri |-> "", edits |-> we.changes[k].edits]]
        ELSE documentChanges

Init ==
    /\ buffers = [p \in DocPaths |-> NewBuffer(SmallLines)]
    /\ preCall = [p \in DocPaths |-> SmallLines]
    /\ setTextLog = [p \in DocPaths |-> <<>>]
    /\ applier = NoCall
    /\ \E source \in {"absent", "data"} :
         files = [f \in {"/p", "/q", "file:///p"} |->
                    IF f = "/p" THEN source ELSE "absent"]
    /\ workspaceEdit \in WorkspaceEdits
    /\ revertLog = <<>>
    /\ changes = <<>>
    /\ phase = "idle"
    /\ promises = <<>>
    /\ ops = <<>>
    /\ errors = <<>>
    /\ joined = [state |-> "none", err |-> NoError]
    /\ checkpoints = <<>>
    /\ result = "none"
    /\ notifications = <<>>
    /\ unhandled = {}
    /\ NoLinter

(***************************************************************************)
(* WorkspaceEditHandler.handleResourceOperation: the outcomes of the       *)
(* filesystem call it makes, each the files afterwards and whether the     *)
(* promise it returns is fulfilled.                                        *)
(***************************************************************************)
HandleResourceOperation(edit, fs) ==
    IF edit.kind = "delete"
    THEN LET path == UriToPath(edit.uri)
         IN  IF fs[path] = "absent" THEN { [files |-> fs, ok |-> FALSE] }
             ELSE { [files |-> [fs EXCEPT ![path] = "absent"], ok |-> TRUE] }
    ELSE IF edit.kind = "rename"
    THEN LET oldPath == UriToPath(edit.uri)
             newPath == UriToPath(edit.newUri)
         IN  IF fs[oldPath] = "absent" THEN { [files |-> fs, ok |-> FALSE] }
             ELSE { [files |-> [fs EXCEPT ![oldPath] = "absent",
                                          ![newPath] = fs[oldPath]],
                     ok |-> TRUE] }
    ELSE \* create: writeFile is given the uri itself; it fails when that
         \* name cannot be opened for writing (its directory is missing).
         { [files |-> [fs EXCEPT ![edit.uri] = "empty"], ok |-> TRUE],
           [files |-> fs, ok |-> FALSE] }

(***************************************************************************)
(* WorkspaceEditHandler.handleDocumentChanges                              *)
(***************************************************************************)
\* Promise.all after the promises became ps, err being the rejection of
\* the promise that was settled last.
JoinAfter(ps, err) ==
    IF joined.state /= "pending" THEN joined
    ELSE IF err /= NoError THEN [state |-> "rejected", err |-> err]
    ELSE IF \A i \in 1..Len(ps) : ps[i] = "fulfilled"
         THEN [state |-> "fulfilled", err |-> NoError]
    ELSE joined

\* handle: the workspace edit is normalized and handed to
\* handleDocumentChanges, of which this is the synchronous part: every
\* callback of the map runs to its first await.  A text document edit waits
\* for its buffer; a resource operation is started and its callback returns
\* without awaiting it.
HandleDocumentChanges ==
    /\ phase = "idle"
    /\ applier.status = "idle"
    /\ phase' = "pending"
    /\ changes' = NormalizeChanges(workspaceEdit)
    /\ promises' = [i \in 1..Len(changes') |->
                      IF IsTextDocumentEdit(changes'[i]) THEN "pending" ELSE "fulfilled"]
    /\ ops' = [i \in 1..Len(changes') |-> "waiting"]
    /\ errors' = [i \in 1..Len(changes') |-> "none"]
    /\ joined' = IF \A i \in 1..Len(changes') : ~IsTextDocumentEdit(changes'[i])
                 THEN [state |-> "fulfilled", err |-> NoError]
                 ELSE [state |-> "pending", err |-> NoError]
    /\ checkpoints' = <<>>
    /\ UNCHANGED linterVars
    /\ UNCHANGED <<buffers, preCall, setTextLog, applier, files,
                   result, notifications, unhandled, workspaceEdit, revertLog>>

\* The callback pushing a checkpoint whether or not the batch threw.
PushCheckpointAlways(cps, path, r) ==
    Append(cps, [buffer |-> path,
                 checkpoint |-> IF r.err = "none" THEN r.checkpoint
                                ELSE r.reverts[1].checkpoint])

\* checkpoints.push after handleTextDocumentEdit: not reached when it threw.
PushCheckpoint(cps, path, r) ==
    IF r.err = "none"
    THEN Append(cps, [buffer |-> path, checkpoint |-> r.checkpoint])
    ELSE cps

\* A callback that is suspended after the first substitution of its batch
\* and completes the batch when it is resumed.
ApplyTextDocumentEditSuspending(i) ==
    /\ phase /= "idle"
    /\ IsTextDocumentEdit(changes[i])
    /\ ops[i] = "waiting"
    /\ LET path == UriToPath(changes[i].uri)
           sorted == SortEdits([k \in 1..Len(changes[i].edits) |->
                                  ConvertLsTextEdit(changes[i].edits[k])])
           r == HandleTextDocumentEdit(buffers[path], changes[i])
           ok == r.err = "none"
           ps == [promises EXCEPT ![i] = IF ok THEN "fulfilled" ELSE "rejected"]
       IN  IF buffers[path].undoStack = <<>> /\ sorted /= <<>>
           THEN /\ buffers' = [buffers EXCEPT ![path] =
                                 SetTextInRange(CreateCheckpoint(buffers[path]),
                                                sorted[1].oldRange, sorted[1].newText)]
                /\ UNCHANGED <<setTextLog, revertLog, checkpoints, promises, ops,
                               errors, joined>>
           ELSE /\ buffers' = [buffers EXCEPT ![path] = r.buffer]
                /\ setTextLog' = [setTextLog EXCEPT ![path] = @ \o r.log]
                /\ revertLog' = revertLog \o [k \in 1..Len(r.reverts) |->
                                               [buffer |-> path,
                                                checkpoint |-> r.reverts[k].checkpoint,
                                                by |-> r.reverts[k].by]]
                /\ checkpoints' = PushCheckpoint(checkpoints, path, r)
                /\ promises' = ps
                /\ ops' = [ops EXCEPT ![i] = IF ok THEN "done" ELSE "failed"]
                /\ errors' = [errors EXCEPT ![i] = r.err]
                /\ joined' = JoinAfter(ps, IF ok THEN NoError
                                           ELSE [kind |-> r.err, path |-> path])
    /\ UNCHANGED linterVars
    /\ UNCHANGED <<preCall, applier, files, changes, phase, result,
                   notifications, unhandled, workspaceEdit>>

\* getBuffer of the i-th operation resolves and its callback runs to the end.
ApplyTextDocumentEdit(i) ==
    /\ phase /= "idle"
    /\ IsTextDocumentEdit(changes[i])
    /\ ops[i] = "waiting"
    /\ LET path == UriToPath(changes[i].uri)
           r == HandleTextDocumentEdit(buffers[path], changes[i])
           ok == r.err = "none"
           ps == [promises EXCEPT ![i] = IF ok THEN "fulfilled" ELSE "rejected"]
       IN  /\ buffers' = [buffers EXCEPT ![path] = r.buffer]
           /\ setTextLog' = [setTextLog EXCEPT ![path] = @ \o r.log]
           /\ revertLog' = revertLog \o [k \in 1..Len(r.reverts) |->
                                          [buffer |-> path,
                                           checkpoint |-> r.reverts[k].checkpoint,
                                           by |-> r.reverts[k].by]]
           /\ checkpoints' = PushCheckpoint(checkpoints, path, r)
           /\ promises' = ps
           /\ ops' = [ops EXCEPT ![i] = IF ok THEN "done" ELSE "failed"]
           /\ errors' = [errors EXCEPT ![i] = r.err]
           /\ joined' = JoinAfter(ps, IF ok THEN NoError
                                      ELSE [kind |-> r.err, path |-> path])
    /\ UNCHANGED linterVars
    /\ UNCHANGED <<preCall, applier, files, changes, phase, result,
                   notifications, unhandled, workspaceEdit>>

\* The filesystem call of the i-th operation completes.
CompleteResourceOperation(i) ==
    /\ phase /= "idle"
    /\ ~IsTextDocumentEdit(changes[i])
    /\ ops[i] = "waiting"
    /\ \E outcome \in HandleResourceOperation(changes[i], files) :
         /\ files' = outcome.files
         /\ ops' = [ops EXCEPT ![i] = IF outcome.ok THEN "done" ELSE "failed"]
         /\ errors' = [errors EXCEPT ![i] = IF outcome.ok THEN "none" ELSE "io"]
         /\ unhandled' = IF outcome.ok THEN unhandled ELSE unhandled \cup {i}
    /\ UNCHANGED linterVars
    /\ UNCHANGED <<buffers, preCall, setTextLog, applier, changes, phase,
                   promises, joined, checkpoints, result, notifications,
                   workspaceEdit, revertLog>>

RECURSIVE RevertAll(_, _)
RevertAll(bufs, cps) ==
    IF cps = <<>> THEN bufs
    ELSE RevertAll([bufs EXCEPT ![Head(cps).buffer] =
                        RevertToCheckpoint(bufs[Head(cps).buffer], Head(cps).checkpoint)],
                   Tail(cps))

\* addError without the detail of the error.
AddErrorWithoutDetail(ns, err) == Append(ns, NoError)

\* atom.notifications.addError with err.message as its detail.
AddError(ns, err) == Append(ns, err)

\* A catch handler that also removes the files the call created.
SettleCompensating ==
    /\ phase = "pending"
    /\ joined.state \in {"fulfilled", "rejected"}
    /\ phase' = "returned"
    /\ IF joined.state = "fulfilled"
       THEN /\ result' = "true"
            /\ UNCHANGED <<buffers, notifications, revertLog, files>>
       ELSE /\ notifications' = AddError(notifications, joined.err)
            /\ buffers' = RevertAll(buffers, checkpoints)
            /\ revertLog' = revertLog \o [k \in 1..Len(checkpoints) |->
                                          [buffer |-> checkpoints[k].buffer,
                                           checkpoint |-> checkpoints[k].checkpoint,
                                           by |-> "coordinator"]]
            /\ files' = [f \in DOMAIN files |->
                           IF files[f] = "empty" THEN "absent" ELSE files[f]]
            /\ result' = "false"
    /\ UNCHANGED linterVars
    /\ UNCHANGED <<preCall, setTextLog, applier, changes, promises,
                   ops, errors, joined, checkpoints, unhandled, workspaceEdit>>

\* Promise.all is settled: the then or the catch handler runs and the call
\* returns.
Settle ==
    /\ phase = "pending"
    /\ joined.state \in {"fulfilled", "rejected"}
    /\ phase' = "returned"
    /\ IF joined.state = "fulfilled"
       THEN /\ result' = "true"
            /\ UNCHANGED <<buffers, notifications, revertLog>>
       ELSE /\ notifications' = AddError(notifications, joined.err)
            /\ buffers' = RevertAll(buffers, checkpoints)
            /\ revertLog' = revertLog \o [k \in 1..Len(checkpoints) |->
                                          [buffer |-> checkpoints[k].buffer,
                                           checkpoint |-> checkpoints[k].checkpoint,
                                           by |-> "coordinator"]]
            /\ result' = "false"
    /\ UNCHANGED linterVars
    /\ UNCHANGED <<preCall, setTextLog, applier, files, changes, promises,
                   ops, errors, joined, checkpoints, unhandled, workspaceEdit>>

Next ==
    \/ HandleDocumentChanges
    \/ \E i \in 1..Len(changes) : ApplyTextDocumentEdit(i)
    \/ \E i \in 1..Len(changes) : CompleteResourceOperation(i)
    \/ Settle

Spec == Init /\ [][Next]_vars

(***************************************************************************)
(* Vocabulary of the properties of handleTextDocumentEdit.                 *)
(***************************************************************************)
\* The edits of the direct call, converted, in input order.
CallEdits == [i \in 1..Len(applier.edits) |-> ConvertLsTextEdit(applier.edits[i])]

CallDone == applier.status \in {"returned", "threw"}

PointInRange(lines, p) ==
    /\ p.row \in 0..(Len(lines) - 1)
    /\ p.column <= Len(lines[p.row + 1])

StartInRange(lines, e) == PointInRange(lines, e.oldRange.start)

EditInRange(lines, e) ==
    PointInRange(lines, e.oldRange.start) /\ PointInRange(lines, e.oldRange.end)

AllInRange(lines, es) == \A i \in 1..Len(es) : EditInRange(lines, es[i])

\* a starts no later than b and ends strictly after b's start.
TrulyOverlap(a, b) ==
    /\ PointCompare(a.start, b.start) <= 0
    /\ PointCompare(a.end, b.start) > 0

HasOverlap(es) ==
    \E i, j \in 1..Len(es) :
        i /= j /\ TrulyOverlap(es[i].oldRange, es[j].oldRange)

\* One range ends where the other starts.
Touch(a, b) ==
    PointCompare(a.end, b.start) = 0 \/ PointCompare(b.end, a.start) = 0

SeqPermutations(es) ==
    { [i \in 1..Len(es) |-> es[f[i]]] : f \in Permutations(1..Len(es)) }

\* The text as one sequence of characters, lines joined by "\n".
RECURSIVE Flatten(_)
Flatten(lines) ==
    IF Len(lines) = 1 THEN lines[1]
    ELSE lines[1] \o <<"\n">> \o Flatten(Tail(lines))

RECURSIVE OffsetOfRow(_, _)
OffsetOfRow(lines, row) ==
    IF row = 0 THEN 0 ELSE OffsetOfRow(lines, row - 1) + Len(lines[row]) + 1

OffsetOf(lines, p) == OffsetOfRow(lines, p.row) + p.column

RECURSIVE ConcatTexts(_)
ConcatTexts(texts) ==
    IF texts = <<>> THEN <<>> ELSE Head(texts) \o ConcatTexts(Tail(texts))

\* The original text with every range replaced at once, built left to
\* right from offset i: the insertions at i in list order, then the edit
\* that replaces a range starting at i, or else the original character.
RECURSIVE Simultaneous(_, _, _, _)
Simultaneous(lines, flat, es, i) ==
    LET at(k) == OffsetOf(lines, es[k].oldRange.start) = i
        width(k) == OffsetOf(lines, es[k].oldRange.end) - i
        inserts == SelectSeq([k \in 1..Len(es) |-> k], LAMBDA k : at(k) /\ width(k) = 0)
        inserted == ConcatTexts([n \in 1..Len(inserts) |-> Flatten(es[inserts[n]].newText)])
        replacing == { k \in 1..Len(es) : at(k) /\ width(k) > 0 }
    IN  IF replacing /= {}
        THEN LET k == CHOOSE k \in replacing : TRUE
             IN  inserted \o Flatten(es[k].newText)
                 \o Simultaneous(lines, flat, es, i + width(k))
        ELSE IF i >= Len(flat) THEN inserted
        ELSE inserted \o <<flat[i + 1]>> \o Simultaneous(lines, flat, es, i + 1)

ApplierLines == buffers[applier.path].lines
ApplierBefore == preCall[applier.path]

(***************************************************************************)
(* Properties of handleTextDocumentEdit, checked under SpecEdit.           *)
(***************************************************************************)
\* The lines the call leaves when it is given the edit list es instead.
LinesAfter(es) ==
    HandleTextDocumentEdit(NewBuffer(ApplierBefore),
                           [textDocument |-> [uri |-> "file:///a", version |-> 0],
                            edits |-> es]).buffer.lines

DisjointInRange ==
    /\ CallDone
    /\ ~HasOverlap(CallEdits)
    /\ AllInRange(ApplierBefore, CallEdits)

\* Edits with the same range carry the same text.
SameRangeSameText ==
    \A i, j \in 1..Len(CallEdits) :
        CallEdits[i].oldRange = CallEdits[j].oldRange
            => CallEdits[i].newText = CallEdits[j].newText

\* C5 as stated: for pairwise non-overlapping, in-range edits every
\* permutation of the input list gives the same final content.
C5_AnyPermutationSameContent ==
    DisjointInRange =>
        \A perm \in SeqPermutations(applier.edits) : LinesAfter(perm) = ApplierLines

\* C5 amended: for pairwise non-overlapping, in-range edits in which edits
\* with the same (zero-width) range carry the same text, every permutation
\* of the input list gives the same final content.
C5_PermutationSameContent ==
    (DisjointInRange /\ SameRangeSameText) =>
        \A perm \in SeqPermutations(applier.edits) : LinesAfter(perm) = ApplierLines

\* Three disjoint edits were applied, given in an order that is not the
\* order of application.
C5_Witness ==
    /\ DisjointInRange /\ SameRangeSameText
    /\ applier.status = "returned"
    /\ Len(CallEdits) = 3
    /\ SortEdits(CallEdits) /= CallEdits
    /\ ApplierLines /= ApplierBefore

\* C6: for pairwise disjoint, in-range edits the call returns and the
\* content is the original with every range, in original coordinates,
\* replaced at once by its new text (insertions at one position in some
\* order).
C6_SimultaneousReplacement ==
    DisjointInRange =>
        /\ applier.status = "returned"
        /\ \E perm \in SeqPermutations(CallEdits) :
              Flatten(ApplierLines)
                = Simultaneous(ApplierBefore, Flatten(ApplierBefore), perm, 0)

\* "hello world" became "goodbye earth".
C6_Witness ==
    /\ DisjointInRange
    /\ ApplierBefore = HelloLines
    /\ ApplierLines = << <<"g", "o", "o", "d", "b", "y", "e", " ",
                           "e", "a", "r", "t", "h">> >>

\* C7: a batch with two truly overlapping edits fails as a whole and the
\* content afterwards is the content before the call.
C7_OverlapFailsUnchanged ==
    (CallDone /\ HasOverlap(CallEdits)) =>
        /\ applier.status = "threw"
        /\ ApplierLines = ApplierBefore

\* An overlap was found after two edits had been substituted.
C7_Witness ==
    /\ applier.status = "threw"
    /\ applier.err = "overlap"
    /\ HasOverlap(CallEdits)
    /\ Len(setTextLog[applier.path]) = 2

\* Two in-range edits that touch and do not truly overlap.
TouchingPair ==
    /\ CallDone
    /\ Len(CallEdits) = 2
    /\ AllInRange(ApplierBefore, CallEdits)
    /\ Touch(CallEdits[1].oldRange, CallEdits[2].oldRange)
    /\ ~HasOverlap(CallEdits)

\* C8: a batch of two in-range edits of which one ends where the other
\* starts is accepted: no error, and both are substituted.
C8_AdjacencyAccepted ==
    TouchingPair =>
        /\ applier.status = "returned"
        /\ applier.err = "none"
        /\ Len(setTextLog[applier.path]) = 2

\* Two ranges of positive width that touch were both substituted.
C8_Witness ==
    /\ TouchingPair
    /\ applier.status = "returned"
    /\ \A i \in 1..2 : CallEdits[i].oldRange.start /= CallEdits[i].oldRange.end
    /\ ApplierLines /= ApplierBefore

SomeStartOutOfRange ==
    /\ CallDone
    /\ \E i \in 1..Len(CallEdits) : ~StartInRange(ApplierBefore, CallEdits[i])

\* C10 as stated: a batch with an edit whose start is out of range fails
\* with an out-of-range error and the content is the content before.
C10_OutOfRangeError ==
    SomeStartOutOfRange =>
        /\ applier.status = "threw"
        /\ applier.err = "outOfRange"
        /\ ApplierLines = ApplierBefore

\* C10 amended: such a batch fails and the content is the content before;
\* the error is the out-of-range error when no two edits truly overlap.
C10_OutOfRangeFailsUnchanged ==
    SomeStartOutOfRange =>
        /\ applier.status = "threw"
        /\ ApplierLines = ApplierBefore
        /\ ~HasOverlap(CallEdits) => applier.err = "outOfRange"

\* The out-of-range edit was reached after a lower edit was substituted.
C10_Witness ==
    /\ SomeStartOutOfRange
    /\ ~HasOverlap(CallEdits)
    /\ applier.err = "outOfRange"
    /\ Len(setTextLog[applier.path]) >= 1

(***************************************************************************)
(* Properties of handleDocumentChanges, checked under Spec.                *)
(***************************************************************************)
OpIndices == 1..Len(changes)

PathOf(i) == UriToPath(changes[i].uri)

OpEdits(i) == [k \in 1..Len(changes[i].edits) |-> ConvertLsTextEdit(changes[i].edits[k])]

\* The outcome of the i-th batch on the content before the call.
BatchAlone(i) == HandleTextDocumentEdit(NewBuffer(preCall[PathOf(i)]), changes[i])

\* The call has returned and every operation it launched has ended.
Finished ==
    /\ phase = "returned"
    /\ \A i \in OpIndices : ops[i] /= "waiting"

\* C1: a call with a valid batch for one document and a failing batch for
\* another, once it and its operations have ended, has left the first
\* document with its content of before the call and has returned
\* applied = false, whichever buffer was resolved first.
C1_ValidBatchRevertedWhenOtherFails ==
    \A a, b \in OpIndices :
        ( /\ Finished
          /\ Len(changes) = 2
          /\ IsTextDocumentEdit(changes[a]) /\ IsTextDocumentEdit(changes[b])
          /\ BatchAlone(a).err = "none"
          /\ BatchAlone(b).err /= "none" )
        => /\ result = "false"
           /\ buffers[PathOf(a)].lines = preCall[PathOf(a)]

\* C2: when a rename of the call fails with an I/O error, the call returns
\* applied = false and every document of the call has its content of
\* before the call.
C2_FailedRenameNotApplied ==
    ( /\ Finished
      /\ \E i \in OpIndices : changes[i].kind = "rename" /\ errors[i] = "io" )
    => /\ result = "false"
       /\ \A j \in OpIndices :
            IsTextDocumentEdit(changes[j])
                => buffers[PathOf(j)].lines = preCall[PathOf(j)]

\* C3: when the call returns, no operation it launched is still pending.
C3_NothingPendingAtReturn ==
    phase = "returned" => \A i \in OpIndices : ops[i] /= "waiting"

\* C4: the call returns applied = true exactly when every operation
\* succeeded, and then every document has the content its batch gives and
\* still holds the checkpoint of the batch.
C4_AppliedIffAllSucceeded ==
    Finished =>
        /\ result = "true" <=> \A i \in OpIndices : ops[i] = "done"
        /\ result = "true" =>
             \A i \in OpIndices :
                IsTextDocumentEdit(changes[i]) =>
                    /\ buffers[PathOf(i)].lines = BatchAlone(i).buffer.lines
                    /\ CheckpointIndex(buffers[PathOf(i)].undoStack,
                                       BatchAlone(i).checkpoint) /= 0

HasTouch(es) ==
    \E i, j \in 1..Len(es) : i /= j /\ Touch(es[i].oldRange, es[j].oldRange)

AllStartInRange(lines, es) == \A k \in 1..Len(es) : StartInRange(lines, es[k])

\* The i-th operation is a batch whose callback has run.
BatchEnded(i) ==
    /\ phase /= "idle"
    /\ IsTextDocumentEdit(changes[i])
    /\ ops[i] /= "waiting"

\* C9 as stated: a batch with two edits whose ranges touch is rejected with
\* an overlap error and the call returns applied = false.
C9_TouchingRejected ==
    \A i \in OpIndices :
        (BatchEnded(i) /\ HasTouch(OpEdits(i))) =>
            /\ ops[i] = "failed"
            /\ errors[i] = "overlap"
            /\ phase = "returned" => result = "false"

\* C9 amended: a batch of in-range edits two of which truly overlap is
\* rejected with an overlap error, its document keeps the content of
\* before the batch and the call returns applied = false; a batch of
\* in-range edits that only touch is not rejected.
C9_OverlappingRejected ==
    \A i \in OpIndices :
        /\ ( /\ BatchEnded(i)
             /\ AllStartInRange(preCall[PathOf(i)], OpEdits(i))
             /\ HasOverlap(OpEdits(i)) )
           => /\ ops[i] = "failed"
              /\ errors[i] = "overlap"
              /\ buffers[PathOf(i)].lines = preCall[PathOf(i)]
              /\ phase = "returned" => result = "false"
        /\ ( /\ BatchEnded(i)
             /\ AllInRange(preCall[PathOf(i)], OpEdits(i))
             /\ HasTouch(OpEdits(i))
             /\ ~HasOverlap(OpEdits(i)) )
           => errors[i] = "none"

\* A call with an overlapping batch has returned applied = false.
C9_Witness ==
    /\ phase = "returned"
    /\ result = "false"
    /\ \E i \in OpIndices :
         /\ BatchEnded(i)
         /\ HasOverlap(OpEdits(i))
         /\ errors[i] = "overlap"
         /\ Len(setTextLog[PathOf(i)]) >= 1

(***************************************************************************)
(* Properties of normalizeChanges, checked under Spec.                     *)
(***************************************************************************)
Launched == phase /= "idle"

\* The documentChanges shape of a changes mapping: a batch with version
\* null for each key.
PerBatchShape(we) ==
    [hasDocumentChanges |-> TRUE,
     documentChanges |-> [k \in 1..Len(we.changes) |->
                            [kind |-> "edit", uri |-> we.changes[k].uri,
                             version |-> "null", newUri |-> "",
                             edits |-> we.changes[k].edits]],
     hasChanges |-> FALSE, changes |-> <<>>]

LegacyShape ==
    /\ Launched
    /\ ~workspaceEdit.hasDocumentChanges
    /\ workspaceEdit.hasChanges

\* C11: a workspace edit with only the changes mapping is normalized to one
\* batch per key, with that uri, version null and the edit list of the
\* key, which is the operation list the documentChanges shape of the same
\* batches is normalized to; the call runs on that list.
C11_LegacyNormalizedAsPerBatch ==
    LegacyShape =>
        /\ Len(changes) = Len(workspaceEdit.changes)
        /\ \A k \in 1..Len(changes) :
             /\ IsTextDocumentEdit(changes[k])
             /\ changes[k].uri = workspaceEdit.changes[k].uri
             /\ changes[k].version = "null"
             /\ changes[k].edits = workspaceEdit.changes[k].edits
        /\ changes = NormalizeChanges(PerBatchShape(workspaceEdit))

\* A legacy edit with two keys was applied.
C11_Witness ==
    /\ LegacyShape
    /\ Len(workspaceEdit.changes) = 2
    /\ phase = "returned"
    /\ result = "true"
    /\ \A i \in 1..Len(changes) : ops[i] = "done"

\* C12: when the workspace edit has both properties the operation list is
\* the documentChanges sequence as it is; no batch comes from the mapping.
C12_DocumentChangesTakePrecedence ==
    (Launched /\ workspaceEdit.hasDocumentChanges) =>
        /\ changes = workspaceEdit.documentChanges
        /\ \A k \in 1..Len(changes) : changes[k].version /= "null"

\* Both properties were present, the mapping with a key.
C12_Witness ==
    /\ Launched
    /\ workspaceEdit.hasDocumentChanges /\ workspaceEdit.hasChanges
    /\ Len(workspaceEdit.documentChanges) = 1
    /\ Len(workspaceEdit.changes) = 2

(***************************************************************************)
(* Properties of the rollback, checked under Spec.                         *)
(***************************************************************************)
\* The reverts made by handleTextDocumentEdit itself, in order.
ApplierReverts == SelectSeq(revertLog, LAMBDA e : e.by = "applier")

\* C13: a call that returns applied = false has shown exactly one error
\* notification, carrying the error of the batch that failed first; no
\* notification is shown otherwise.
C13_OneNotificationOnFailure ==
    /\ result /= "false" => notifications = <<>>
    /\ result = "false" =>
         /\ Len(notifications) = 1
         /\ ApplierReverts /= <<>>
         /\ notifications[1].path = ApplierReverts[1].buffer
         /\ \E i \in 1..Len(changes) :
              /\ IsTextDocumentEdit(changes[i])
              /\ UriToPath(changes[i].uri) = notifications[1].path
              /\ ops[i] = "failed"
              /\ notifications[1].kind = errors[i]

\* Two batches failed with different errors and one notification was shown.
C13_Witness ==
    /\ result = "false"
    /\ Len(notifications) = 1
    /\ Len(ApplierReverts) = 2
    /\ \E i, j \in 1..Len(changes) :
         errors[i] = "overlap" /\ errors[j] = "outOfRange"

\* C14: the files change only in the step in which a resource operation of
\* the call completes; the step in which a failed call rolls back and
\* returns leaves every file as it is.
C14_RollbackLeavesFiles ==
    [][ /\ (\A i \in 1..Len(changes) :
              ~IsTextDocumentEdit(changes[i]) => ops'[i] = ops[i])
           => files' = files
        /\ (phase = "pending" /\ result' = "false") => files' = files ]_vars

\* A call failed and the rename and the create it made, both completed, are
\* in place.
C14_Witness ==
    /\ result = "false"
    /\ \E i, j \in 1..Len(changes) :
         /\ changes[i].kind = "rename" /\ ops[i] = "done"
         /\ changes[j].kind = "create" /\ ops[j] = "done"
    /\ files["/p"] = "absent"
    /\ files["/q"] = "data"
    /\ files["file:///p"] = "empty"

(***************************************************************************)
(* Order and validation of the substitutions, checked under SpecEdit.      *)
(***************************************************************************)
\* The substitutions the call makes when it is given the edit list es.
SubstitutionsOf(es) ==
    HandleTextDocumentEdit(NewBuffer(ApplierBefore),
                           [textDocument |-> [uri |-> "file:///a", version |-> 0],
                            edits |-> es]).log

ApplierLog == setTextLog[applier.path]

\* No substituted edit starts after the edit substituted before it.
DescendingStarts(log) ==
    \A k \in 2..Len(log) :
        PointCompare(log[k].oldRange.start, log[k - 1].oldRange.start) <= 0

\* C15 as stated: the substitutions are made in descending order of range
\* start and every permutation of the input list gives the same sequence
\* of substitutions.
C15_AnyPermutationSameSequence ==
    CallDone =>
        /\ DescendingStarts(ApplierLog)
        /\ \A perm \in SeqPermutations(applier.edits) :
              SubstitutionsOf(perm) = ApplierLog

\* C15 amended: the substitutions are made in descending order of range
\* start; every permutation of the input list gives the same sequence of
\* substitutions when edits with the same range carry the same text.
C15_DescendingOrder ==
    CallDone =>
        /\ DescendingStarts(ApplierLog)
        /\ SameRangeSameText =>
              \A perm \in SeqPermutations(applier.edits) :
                  SubstitutionsOf(perm) = ApplierLog

\* Three edits given in another order than the one they were substituted
\* in, two of them the same insertion.
C15_Witness ==
    /\ applier.status = "returned"
    /\ SameRangeSameText
    /\ Len(ApplierLog) = 3
    /\ ApplierLog /= CallEdits
    /\ \E i, j \in 1..3 : i /= j /\ CallEdits[i] = CallEdits[j]
    /\ PointCompare(ApplierLog[3].oldRange.start, ApplierLog[1].oldRange.start) < 0

\* The edit passes the checks of validateEdit, in the coordinates of the
\* content before the call, after the edit prev was substituted.
PassesValidation(e, prev) ==
    /\ StartInRange(ApplierBefore, e)
    /\ prev /= <<>> => PointCompare(e.oldRange.end, prev[1].oldRange.start) <= 0

\* C16 as stated: for a batch with an overlapping or out-of-range edit no
\* substitution is ever performed on the buffer.
C16_NoSubstitutionBeforeRejection ==
    (CallDone /\ (HasOverlap(CallEdits) \/ SomeStartOutOfRange)) =>
        ApplierLog = <<>>

\* C16 amended: each edit is validated before its own substitution.  When
\* the call throws, the substituted edits are a proper prefix of the
\* sorted list, each of them passed validation, the next edit of the sorted
\* list failed it and was not substituted, and the content is the content
\* before the call.
C16_InvalidEditNeverSubstituted ==
    applier.status = "threw" =>
        LET sorted == SortEdits(CallEdits)
            n == Len(ApplierLog)
            prevOf(k) == IF k = 1 THEN <<>> ELSE << sorted[k - 1] >>
        IN  /\ n < Len(sorted)
            /\ ApplierLog = SubSeq(sorted, 1, n)
            /\ \A k \in 1..n : PassesValidation(sorted[k], prevOf(k))
            /\ ~PassesValidation(sorted[n + 1], prevOf(n + 1))
            /\ ApplierLines = ApplierBefore

\* The call threw after two substitutions, the first of a range of
\* positive width, and the content is the content before the call.
C16_Witness ==
    /\ applier.status = "threw"
    /\ Len(ApplierLog) = 2
    /\ ApplierLog[1].oldRange.start /= ApplierLog[1].oldRange.end
    /\ ApplierLines = ApplierBefore

(***************************************************************************)
(* The checkpoint of a batch, checked under SpecEdit.                      *)
(***************************************************************************)
\* One undo step of the buffer: the topmost change of its undo stack is
\* taken back, checkpoints above it are dropped.
Undo(buffer) ==
    LET changed == { j \in 1..Len(buffer.undoStack) :
                       buffer.undoStack[j].kind /= "checkpoint" }
    IN  IF changed = {} THEN buffer
        ELSE LET j == CHOOSE j \in changed : \A k \in changed : k <= j
             IN  [buffer EXCEPT !.lines = buffer.undoStack[j].before,
                                !.undoStack = SubSeq(buffer.undoStack, 1, j - 1)]

\* C17: when the call returns, the checkpoint it returns is in the buffer
\* and marks the content before the call, the substitutions of the batch
\* are one change above it, and reverting to the checkpoint, like one undo
\* step, restores the content before the call.
C17_CheckpointRestoresPreBatch ==
    applier.status = "returned" =>
        LET buffer == buffers[applier.path]
            i == CheckpointIndex(buffer.undoStack, applier.checkpoint)
        IN  /\ i > 0
            /\ buffer.undoStack[i].before = ApplierBefore
            /\ Len(buffer.undoStack) = IF ApplierLog = <<>> THEN i ELSE i + 1
            /\ \A j \in (i + 1)..Len(buffer.undoStack) :
                  buffer.undoStack[j].kind = "transaction"
            /\ RevertToCheckpoint(buffer, applier.checkpoint).lines = ApplierBefore
            /\ Undo(buffer).lines = ApplierBefore

\* A batch of three substitutions that changed the content returned.
C17_Witness ==
    /\ applier.status = "returned"
    /\ applier.checkpoint = 1
    /\ Len(ApplierLog) = 3
    /\ ApplierLines /= ApplierBefore
    /\ Len(ApplierLines) > Len(ApplierBefore)

(***************************************************************************)
(* Interleaving and checkpoints of a call, checked under Spec.             *)
(***************************************************************************)
\* No buffer is between the checkpoint of a batch and the end of the batch:
\* its undo stack holds no change that is neither grouped nor reverted.
NoOpenBatch ==
    \A p \in DocPaths :
        \A j \in 1..Len(buffers[p].undoStack) : buffers[p].undoStack[j].kind /= "patch"

\* The step takes a checkpoint in the buffer of p.
TakesCheckpoint(p) == buffers'[p].nextCheckpointId /= buffers[p].nextCheckpointId

\* C18: no state lies between the checkpoint of a batch and the end of the
\* batch, and the step that takes the checkpoint of a batch is the step
\* that ends it: it ends one batch, on that buffer, and changes no other
\* buffer, no file and nothing of the coordinator's return.
C18_BatchIsOneStep ==
    /\ []NoOpenBatch
    /\ [][ \A p \in DocPaths :
             TakesCheckpoint(p) =>
               /\ \E i \in 1..Len(changes) :
                    /\ IsTextDocumentEdit(changes[i])
                    /\ UriToPath(changes[i].uri) = p
                    /\ ops[i] = "waiting" /\ ops'[i] \in {"done", "failed"}
                    /\ \A j \in 1..Len(changes) : j /= i => ops'[j] = ops[j]
               /\ \A q \in DocPaths \ {p} : buffers'[q] = buffers[q]
               /\ UNCHANGED <<files, phase, result, notifications, unhandled>> ]_vars

\* A batch of two substitutions ended while a batch of another document
\* and a resource operation of the call were still waiting.
C18_Witness ==
    /\ phase = "pending"
    /\ Len(changes) = 3
    /\ \E i, j, k \in 1..3 :
         /\ IsTextDocumentEdit(changes[i]) /\ ops[i] = "done"
         /\ Len(setTextLog[UriToPath(changes[i].uri)]) = 2
         /\ IsTextDocumentEdit(changes[j]) /\ ops[j] = "waiting"
         /\ ~IsTextDocumentEdit(changes[k]) /\ ops[k] = "waiting"

\* C19: a create operation that completed, no other resource operation of
\* the call having acted, has left an empty file at the path its uri
\* resolves to.
C19_CreateWritesResolvedPath ==
    Launched =>
        \A i \in 1..Len(changes) :
            ( /\ changes[i].kind = "create"
              /\ ops[i] = "done"
              /\ \A j \in 1..Len(changes) :
                   j /= i => (IsTextDocumentEdit(changes[j]) \/ ops[j] = "waiting") )
            => files[UriToPath(changes[i].uri)] = "empty"

\* The document batches of the call that ended in the given way.
BatchesThat(how) ==
    { i \in 1..Len(changes) : IsTextDocumentEdit(changes[i]) /\ ops[i] = how }

RevertsOf(path, by) ==
    SelectSeq(revertLog, LAMBDA e : e.buffer = path /\ e.by = by)

\* C20: the checkpoint list holds one entry for each batch that completed
\* and none for a batch that failed or has not run; the buffer of a failed
\* batch was reverted once, by handleTextDocumentEdit, and the rollback
\* does not revert it with the checkpoint of that batch.
C20_CheckpointsOfCompletedBatches ==
    Launched =>
        /\ Len(checkpoints) = Cardinality(BatchesThat("done"))
        /\ \A i \in BatchesThat("done") :
             Len(SelectSeq(checkpoints,
                           LAMBDA c : c.buffer = UriToPath(changes[i].uri))) = 1
        /\ \A i \in BatchesThat("failed") \cup BatchesThat("waiting") :
             \A k \in 1..Len(checkpoints) :
                 checkpoints[k].buffer /= UriToPath(changes[i].uri)
        /\ \A i \in BatchesThat("failed") :
             /\ Len(RevertsOf(UriToPath(changes[i].uri), "applier")) = 1
             /\ RevertsOf(UriToPath(changes[i].uri), "coordinator") = <<>>
             /\ buffers[UriToPath(changes[i].uri)].lines
                  = preCall[UriToPath(changes[i].uri)]

\* A batch failed, the batch of the other document completed and was
\* reverted by the rollback.
C20_Witness ==
    /\ result = "false"
    /\ BatchesThat("failed") /= {}
    /\ BatchesThat("done") /= {}
    /\ Len(checkpoints) = 1
    /\ Len(RevertsOf(checkpoints[1].buffer, "coordinator")) = 1

(***************************************************************************)
(* LinterPushV2Adapter: the diagnostics a language server publishes are    *)
(* stored by path and forwarded to the attached linter delegates.          *)
(***************************************************************************)
\* Map.prototype.set on a map kept as its entries in insertion order: the
\* value of a present key is replaced in place, a new key is added last.
MapSet(map, key, value) ==
    IF \E k \in 1..Len(map) : map[k].key = key
    THEN [k \in 1..Len(map) |->
            IF map[k].key = key THEN [key |-> key, value |-> value] ELSE map[k]]
    ELSE Append(map, [key |-> key, value |-> value])

\* diagnosticSeverityToSeverity: Error is 1 and Warning is 2.
DiagnosticSeverityToSeverity(severity) ==
    CASE severity = 1 -> "error"
      [] severity = 2 -> "warning"
      [] OTHER -> "info"

\* diagnosticToV2Message; a diagnostic without severity has severity 0 here.
DiagnosticToV2Message(path, diagnostic) ==
    [location |-> [file |-> path,
                   position |-> LsRangeToAtomRange(diagnostic.range)],
     excerpt |-> diagnostic.message,
     linterName |-> diagnostic.source,
     severity |-> DiagnosticSeverityToSeverity(
                     IF diagnostic.severity = 0 THEN -1 ELSE diagnostic.severity)]

\* getCodeKey: a key made of the range and the message.
GetCodeKey(range, text) == <<range, text>>

\* The messages and the code map captureDiagnostics builds in its map over
\* the diagnostics, from the k-th diagnostic on.
RECURSIVE ConvertDiagnostics(_, _, _, _, _)
ConvertDiagnostics(path, diagnostics, k, messages, codeMap) ==
    IF k > Len(diagnostics) THEN [messages |-> messages, codeMap |-> codeMap]
    ELSE LET linterMessage == DiagnosticToV2Message(path, diagnostics[k])
         IN  ConvertDiagnostics(path, diagnostics, k + 1,
                                Append(messages, linterMessage),
                                MapSet(codeMap,
                                       GetCodeKey(linterMessage.location.position,
                                                  diagnostics[k].message),
                                       diagnostics[k].code))

\* The calls a delegate receives.
SetMessagesCall(path, messages) ==
    [call |-> "setMessages", path |-> path, messages |-> messages]

ClearMessagesCall == [call |-> "clearMessages", path |-> "", messages |-> <<>>]

\* The onDidDestroy callback that leaves the delegate in the set.
IndiesDeleteOmitted(set, indie) == set

\* this._indies.delete(indie), the onDidDestroy callback of attach.
IndiesDelete(set, indie) == set \ {indie}

Diagnostic1 ==
    [range |-> [start |-> [line |-> 0, character |-> 0],
                end |-> [line |-> 0, character |-> 1]],
     message |-> "m1", source |-> "server", severity |-> 1, code |-> "c1"]

Diagnostic2 ==
    [range |-> [start |-> [line |-> 1, character |-> 0],
                end |-> [line |-> 1, character |-> 0]],
     message |-> "m2", source |-> "server", severity |-> 0, code |-> "c2"]

\* The PublishDiagnosticsParams drawn: no, one and two diagnostics.
PublishParams ==
    [uri : DocUris,
     diagnostics : { <<>>, <<Diagnostic1>>, <<Diagnostic1, Diagnostic2>> }]

LinterEvent(op, indie, uri, diagnostics) ==
    [op |-> op, indie |-> indie, uri |-> uri, diagnostics |-> diagnostics]

InitLinter ==
    /\ buffers = [p \in DocPaths |-> NewBuffer(SmallLines)]
    /\ preCall = [p \in DocPaths |-> SmallLines]
    /\ setTextLog = [p \in DocPaths |-> <<>>]
    /\ applier = NoCall
    /\ revertLog = <<>>
    /\ NoLoop
    /\ NoLinter

\* captureDiagnostics(params)
CaptureDiagnostics(params) ==
    /\ Len(linterEvents) < MaxEvents
    /\ LET path == UriToPath(params.uri)
           c == ConvertDiagnostics(path, params.diagnostics, 1, <<>>, <<>>)
       IN  /\ diagnosticMap' = MapSet(diagnosticMap, path, c.messages)
           /\ diagnosticCodes' = MapSet(diagnosticCodes, path, c.codeMap)
           /\ received' = [d \in Delegates |->
                             IF d \in indies
                             THEN Append(received[d], SetMessagesCall(path, c.messages))
                             ELSE received[d]]
    /\ linterEvents' = Append(linterEvents,
                              LinterEvent("captureDiagnostics", "", params.uri,
                                          params.diagnostics))
    /\ UNCHANGED <<indies, destroyed, listeners>>
    /\ UNCHANGED <<buffers, preCall, setTextLog, applier, revertLog, loopVars>>

\* attach(indie), indie a live delegate.
Attach(indie) ==
    /\ Len(linterEvents) < MaxEvents
    /\ indie \notin destroyed
    /\ indies' = indies \cup {indie}
    /\ received' = [received EXCEPT ![indie] =
                      @ \o [k \in 1..Len(diagnosticMap) |->
                              SetMessagesCall(diagnosticMap[k].key,
                                              diagnosticMap[k].value)]]
    /\ listeners' = listeners \cup {indie}
    /\ linterEvents' = Append(linterEvents, LinterEvent("attach", indie, "", <<>>))
    /\ UNCHANGED <<diagnosticMap, diagnosticCodes, destroyed>>
    /\ UNCHANGED <<buffers, preCall, setTextLog, applier, revertLog, loopVars>>

\* A delegate is destroyed: its onDidDestroy callbacks run.
DestroyDelegate(indie) ==
    /\ Len(linterEvents) < MaxEvents
    /\ indie \notin destroyed
    /\ destroyed' = destroyed \cup {indie}
    /\ indies' = IF indie \in listeners THEN IndiesDelete(indies, indie) ELSE indies
    /\ listeners' = listeners \ {indie}
    /\ linterEvents' = Append(linterEvents, LinterEvent("destroy", indie, "", <<>>))
    /\ UNCHANGED <<diagnosticMap, diagnosticCodes, received>>
    /\ UNCHANGED <<buffers, preCall, setTextLog, applier, revertLog, loopVars>>

\* detachAll(), also what dispose() does.
DetachAll ==
    /\ Len(linterEvents) < MaxEvents
    /\ received' = [d \in Delegates |->
                      IF d \in indies THEN Append(received[d], ClearMessagesCall)
                      ELSE received[d]]
    /\ indies' = {}
    /\ linterEvents' = Append(linterEvents, LinterEvent("detachAll", "", "", <<>>))
    /\ UNCHANGED <<diagnosticMap, diagnosticCodes, destroyed, listeners>>
    /\ UNCHANGED <<buffers, preCall, setTextLog, applier, revertLog, loopVars>>

NextLinter ==
    \/ \E params \in PublishParams : CaptureDiagnostics(params)
    \/ \E indie \in Delegates : Attach(indie)
    \/ \E indie \in Delegates : DestroyDelegate(indie)
    \/ DetachAll

SpecLinter == InitLinter /\ [][NextLinter]_vars

(***************************************************************************)
(* Properties of LinterPushV2Adapter, checked under SpecLinter.  They are  *)
(* stated over the events so far, not over the set the adapter keeps.      *)
(***************************************************************************)
IsDestroyOf(e, d) == e.op = "destroy" /\ e.indie = d

\* After the events h the delegate is attached: it was attached and since
\* then neither destroyed nor detached.
AttachedAfter(h, d) ==
    \E k \in 1..Len(h) :
        /\ h[k].op = "attach" /\ h[k].indie = d
        /\ \A j \in (k + 1)..Len(h) : h[j].op /= "detachAll" /\ ~IsDestroyOf(h[j], d)

WasDestroyed(h, d) == \E k \in 1..Len(h) : IsDestroyOf(h[k], d)

\* Some detachAll of h found the delegate attached.
WasDetached(h, d) ==
    \E k \in 1..Len(h) :
        h[k].op = "detachAll" /\ AttachedAfter(SubSeq(h, 1, k - 1), d)

\* The captureDiagnostics events of h for the path.
CapturesOf(h, path) ==
    { k \in 1..Len(h) : h[k].op = "captureDiagnostics" /\ UriToPath(h[k].uri) = path }

CapturedPaths(h) == { path \in DocPaths : CapturesOf(h, path) /= {} }

\* The messages of the last captureDiagnostics of h for the path.
LatestMessages(h, path) ==
    LET k == CHOOSE k \in CapturesOf(h, path) : \A j \in CapturesOf(h, path) : j <= k
    IN  [i \in 1..Len(h[k].diagnostics) |-> DiagnosticToV2Message(path, h[k].diagnostics[i])]

\* The step is the event op; ThisEvent is that event.
ThisEvent == linterEvents'[Len(linterEvents')]

StepIs(op) == linterEvents' /= linterEvents /\ ThisEvent.op = op

\* A captureDiagnostics step leaves the map with one entry for its path,
\* holding its messages, and the other entries as they were, and every
\* attached delegate receives one setMessages with those messages.
CaptureReplacesAndSends ==
    StepIs("captureDiagnostics") =>
        LET path == UriToPath(ThisEvent.uri)
            messages == LatestMessages(linterEvents', path)
        IN  /\ Cardinality({ k \in 1..Len(diagnosticMap') :
                               diagnosticMap'[k].key = path }) = 1
            /\ \A k \in 1..Len(diagnosticMap') :
                 diagnosticMap'[k].key = path => diagnosticMap'[k].value = messages
            /\ \A k \in 1..Len(diagnosticMap) :
                 diagnosticMap[k].key /= path => diagnosticMap'[k] = diagnosticMap[k]
            /\ \A d \in Delegates :
                 AttachedAfter(linterEvents, d) =>
                     received'[d] = Append(received[d], SetMessagesCall(path, messages))

\* An attach step sends the delegate one setMessages for each path captured
\* so far, with the latest messages of that path, and nothing else.
AttachSendsLatest ==
    StepIs("attach") =>
        LET d == ThisEvent.indie
            n == Len(received[d])
            sent == { received'[d][k] : k \in (n + 1)..Len(received'[d]) }
        IN  /\ SubSeq(received'[d], 1, n) = received[d]
            /\ Len(received'[d]) = n + Cardinality(CapturedPaths(linterEvents))
            /\ sent = { SetMessagesCall(path, LatestMessages(linterEvents, path)) :
                          path \in CapturedPaths(linterEvents) }
            /\ \A other \in Delegates \ {d} : received'[other] = received[other]

====
